---- MODULE Spec2Model ----
(***************************************************************************)
(* A model of AddCoord.fetch_coordinates (src/addcoord.py): the initial    *)
(* dispatch of every address to the geocoder through a thread pool, the    *)
(* partition of the outcomes into failed and successful index maps, and    *)
(* the retry loop that re-dispatches the failed indexes up to ten times    *)
(* and splices the retried coordinates back into the output list.          *)
(*                                                                         *)
(* Python values are modelled as follows.                                  *)
(*   - A list is a sequence; Python's 0-based index i is element i + 1.    *)
(*   - A dict is the sequence of its <<key, value>> items in insertion     *)
(*     order, with pairwise distinct keys.                                 *)
(*   - A coordinate is the string geocode builds, "lat,lng".               *)
(*   - None is the string "None"; no coordinate string equals it, since    *)
(*     every coordinate string contains a comma.                           *)
(*   - num_threads = 0 stands for num_threads=None (argument omitted):     *)
(*     ThreadPoolExecutor rejects 0, so 0 is no value a caller can pass.   *)
(***************************************************************************)
EXTENDS Integers, Sequences, FiniteSets, TLC

(* Bounds of the model: the longest input list, the number of latitudes the *)
(* geocoder can answer, the largest num_threads a caller passes, the host's *)
(* os.cpu_count(), and the most rounds a geocoder of OracleSpec fails an    *)
(* address in before it answers it; the most Series, and the most values   *)
(* of one of several Series, a call of create_main_address is given; and   *)
(* the most values of the Series of a call on one Series.                  *)
MaxLen == 3
MaxLat == 2
MaxThreads == 2
CpuCount == 1
MaxFailRounds == 2
MaxSeries == 2
MaxRows == 2
MaxAddresses == 4

(* The retry ceiling of fetch_coordinates. *)
MaxRetries == 10

None == "None"

VARIABLES
    addresses,          \* argument of fetch_coordinates: the list of address strings
    num_threads,        \* argument of fetch_coordinates (0: None)
    pc,                 \* position of the fetch_coordinates call
    index_dict,         \* dict address -> index handed to concurrent_geocode
    tasks,              \* the work items of the current executor.map, in submit order
    lat_lon_list,       \* the output list
    failed_indexes,     \* dict address -> index of the lookups that returned None
    successful_indexes, \* dict address -> index of the lookups that returned a coordinate
    retries,            \* retry rounds completed
    lat_lon_series,     \* self.lat_lon_series
    rounds,             \* history: calls of concurrent_geocode made so far
    any_failed,         \* history: some geocoder call has failed
    any_succeeded,      \* history: some geocoder call has succeeded
    succeeded,          \* history: the indexes whose paired lookup has succeeded
    oracle,             \* OracleSpec: per address, the rounds the geocoder fails it in
    call,               \* OracleSpec: 1 for the first call of fetch_coordinates, 2 for the second
    first,              \* OracleSpec: how the first call ended
    full_addresses,     \* self.full_addresses
    cm_pc,              \* create_main_address: "idle", "returned" or "raised"
    cm_args,            \* the series passed to create_main_address
    cm_result,          \* the series it returned, or the name of the exception raised
    cm_notice           \* the counts printed by its duplicate notice

vars == <<addresses, num_threads, pc, index_dict, tasks, lat_lon_list,
          failed_indexes, successful_indexes, retries, lat_lon_series, rounds,
          any_failed, any_succeeded, succeeded, oracle, call, first,
          full_addresses, cm_pc, cm_args, cm_result, cm_notice>>

(* The variables of create_main_address. *)
composer == <<full_addresses, cm_pc, cm_args, cm_result, cm_notice>>

(* The variables of fetch_coordinates. *)
engine == <<addresses, num_threads, pc, index_dict, tasks, lat_lon_list,
            failed_indexes, successful_indexes, retries, lat_lon_series, rounds,
            any_failed, any_succeeded, succeeded, oracle, call, first>>

Min(a, b) == IF a <= b THEN a ELSE b

(* The k-th address string the inputs are drawn from. *)
Address(k) == "addr" \o ToString(k)
AddressPool == {Address(k) : k \in 1..MaxLen}

(* The code uses an address string only as a dict key and as the geocoder's   *)
(* argument, so lists that differ by a renaming of the strings behave alike:  *)
(* the inputs are the lists in which Address(k + 1) first occurs after        *)
(* Address(k) has.                                                            *)
FirstOccurrenceOrdered(list) ==
    \A i \in 1..Len(list) : \A k \in 2..MaxLen :
        list[i] = Address(k) => \E j \in 1..(i - 1) : list[j] = Address(k - 1)

(* Every list of at most n elements of S. *)
ListsUpTo(S, n) == UNION {[1..k -> S] : k \in 0..n}

(* What geocoder.arcgis(address) can answer: a failure, or ok with a latitude *)
(* and a longitude; latitude and longitude 0 are the falsy coordinate.        *)
Responses ==
    {[ok |-> FALSE, lat |-> 0, lng |-> 0]}
    \cup {[ok |-> TRUE, lat |-> la, lng |-> 0 - la] : la \in 0..MaxLat}

----------------------------------------------------------------------------
(* Python built-ins *)

(* d[k] = v on a dict: an existing key keeps its place, a new key goes last. *)
DictSet(d, k, v) ==
    IF \E i \in 1..Len(d) : d[i][1] = k
    THEN [i \in 1..Len(d) |-> IF d[i][1] = k THEN <<k, v>> ELSE d[i]]
    ELSE Append(d, <<k, v>>)

(* {k: v for k, v in pairs}, over the first n pairs. *)
RECURSIVE DictComprehension(_, _)
DictComprehension(pairs, n) ==
    IF n = 0 THEN <<>>
    ELSE DictSet(DictComprehension(pairs, n - 1), pairs[n][1], pairs[n][2])

(* d.values() *)
DictValues(d) == [i \in 1..Len(d) |-> d[i][2]]

(* zip(a, b): stops at the shorter of the two. *)
Zip(a, b) == [i \in 1..Min(Len(a), Len(b)) |-> <<a[i], b[i]>>]

(* The set of the elements of a list. *)
Range(s) == {s[i] : i \in 1..Len(s)}

----------------------------------------------------------------------------
(* AddCoord *)

(* geocode without the test of g.ok: a failed answer is formatted too. *)
geocode_NoOkTest(g) == ToString(g.lat) \o "," \o ToString(g.lng)

(* geocode: "lat,lng" when the geocoder answers ok, None otherwise. *)
geocode(g) ==
    IF g.ok THEN ToString(g.lat) \o "," \o ToString(g.lng) ELSE None

(* _geocode_wrapper: the lookup's outcome with the index item it was given. *)
_geocode_wrapper(g, index) ==
    LET lat_lon == geocode(g)
    IN  IF lat_lon # None THEN <<lat_lon, index>> ELSE <<None, index>>

(* ThreadPoolExecutor(num_threads)._max_workers: num_threads when given, *)
(* the library's default min(32, os.cpu_count() + 4) otherwise.          *)
max_workers ==
    IF num_threads = 0 THEN Min(32, CpuCount + 4) ELSE num_threads

(* WorkItems with no more work items than there are worker threads: the    *)
(* pairs past the first max_workers are never looked up.                   *)
WorkItems_OnlyWorkers(addrs, idict) ==
    LET pairs == Zip(addrs, idict)
    IN  [i \in 1..Min(Len(pairs), max_workers) |->
            [address |-> pairs[i][1], index |-> pairs[i][2],
             status |-> "unsubmitted", result |-> <<>>]]

(* The work items of executor.map(self._geocode_wrapper, addresses,        *)
(* index_dict.items()): one per pair of zip(addresses, index_dict.items()), *)
(* in that order. executor.map submits them one by one; none is submitted  *)
(* yet.                                                                    *)
WorkItems(addrs, idict) ==
    LET pairs == Zip(addrs, idict)
    IN  [i \in 1..Len(pairs) |->
            [address |-> pairs[i][1], index |-> pairs[i][2],
             status |-> "unsubmitted", result |-> <<>>]]

Running == {i \in 1..Len(tasks) : tasks[i].status = "running"}
AllDone == \A i \in 1..Len(tasks) : tasks[i].status = "done"

(* concurrent_geocode with the outcomes of the failed lookups left out of *)
(* the list of outcomes.                                                  *)
concurrent_geocode_DropsFailed(ts) ==
    LET indexed_results == [i \in 1..Len(ts) |-> ts[i].result]
        IsFailed(result) == result[1] = None
        IsSuccessful(result) == result[1] # None
        Second(rs) == [i \in 1..Len(rs) |-> rs[i][2]]
        First(rs) == [i \in 1..Len(rs) |-> rs[i][1]]
        failed_indexes_list == Second(SelectSeq(indexed_results, IsFailed))
        successful_index_list == Second(SelectSeq(indexed_results, IsSuccessful))
    IN  [lat_lon_list |-> First(SelectSeq(indexed_results, IsSuccessful)),
         failed_indexes |->
            DictComprehension(failed_indexes_list, Len(failed_indexes_list)),
         successful_indexes |->
            DictComprehension(successful_index_list, Len(successful_index_list))]

(* concurrent_geocode with the filter of line 146 left out: the failed index *)
(* dict holds the index of every lookup of the round.                        *)
concurrent_geocode_NoFailedFilter(ts) ==
    LET indexed_results == [i \in 1..Len(ts) |-> ts[i].result]
        IsSuccessful(result) == result[1] # None
        Second(rs) == [i \in 1..Len(rs) |-> rs[i][2]]
        failed_indexes_list == Second(indexed_results)
        successful_index_list == Second(SelectSeq(indexed_results, IsSuccessful))
    IN  [lat_lon_list |-> [i \in 1..Len(ts) |-> indexed_results[i][1]],
         failed_indexes |->
            DictComprehension(failed_indexes_list, Len(failed_indexes_list)),
         successful_indexes |->
            DictComprehension(successful_index_list, Len(successful_index_list))]

(* The successful indexes taken from every result, not only from those     *)
(* whose outcome is not None.                                              *)
concurrent_geocode_NoSuccessFilter(ts) ==
    LET indexed_results == [i \in 1..Len(ts) |-> ts[i].result]
        IsFailed(result) == result[1] = None
        Second(rs) == [i \in 1..Len(rs) |-> rs[i][2]]
        failed_indexes_list == Second(SelectSeq(indexed_results, IsFailed))
        successful_index_list == Second(indexed_results)
    IN  [lat_lon_list |-> [i \in 1..Len(ts) |-> indexed_results[i][1]],
         failed_indexes |->
            DictComprehension(failed_indexes_list, Len(failed_indexes_list)),
         successful_indexes |->
            DictComprehension(successful_index_list, Len(successful_index_list))]

(* concurrent_geocode, once list(executor.map(...)) has every result. *)
concurrent_geocode(ts) ==
    LET indexed_results == [i \in 1..Len(ts) |-> ts[i].result]
        IsFailed(result) == result[1] = None
        IsSuccessful(result) == result[1] # None
        Second(rs) == [i \in 1..Len(rs) |-> rs[i][2]]
        failed_indexes_list == Second(SelectSeq(indexed_results, IsFailed))
        successful_index_list == Second(SelectSeq(indexed_results, IsSuccessful))
    IN  [lat_lon_list |-> [i \in 1..Len(ts) |-> indexed_results[i][1]],
         failed_indexes |->
            DictComprehension(failed_indexes_list, Len(failed_indexes_list)),
         successful_indexes |->
            DictComprehension(successful_index_list, Len(successful_index_list))]

(* for coord, index in update_list: lat_lon_list[index] = coord, from the i-th *)
(* pair on. An index past the end of the list raises IndexError; the writes    *)
(* made before it stay.                                                        *)
RECURSIVE UpdateLatLonList(_, _, _)
UpdateLatLonList(list, update_list, i) ==
    IF i > Len(update_list) THEN [list |-> list, raised |-> FALSE]
    ELSE LET coord == update_list[i][1]
             index == update_list[i][2]
         IN  IF index >= Len(list) THEN [list |-> list, raised |-> TRUE]
             ELSE UpdateLatLonList([list EXCEPT ![index + 1] = coord],
                                   update_list, i + 1)

(* The loop test with the ceiling off by one: an eleventh retry round. *)
LoopTest_OffByOne == failed_indexes # <<>> /\ retries <= MaxRetries

(* while failed_indexes and retries < 10 *)
LoopTest == failed_indexes # <<>> /\ retries < MaxRetries

(* __init__, and no call of create_main_address yet. *)
ComposerIdle ==
    /\ full_addresses = <<>>
    /\ cm_pc = "idle"
    /\ cm_args = <<>>
    /\ cm_result = [exception |-> None, value |-> <<>>]
    /\ cm_notice = <<>>

----------------------------------------------------------------------------
Init ==
    /\ addresses \in {list \in ListsUpTo(AddressPool, MaxLen) : FirstOccurrenceOrdered(list)}
    /\ num_threads \in 0..MaxThreads
    /\ pc = "start"
    /\ index_dict = <<>>
    /\ tasks = <<>>
    /\ lat_lon_list = <<>>
    /\ failed_indexes = <<>>
    /\ successful_indexes = <<>>
    /\ retries = 0
    /\ lat_lon_series = None
    /\ rounds = 0
    /\ any_failed = FALSE
    /\ any_succeeded = FALSE
    /\ succeeded = {}
    /\ oracle = <<>>
    /\ call = 1
    /\ first = None
    /\ ComposerIdle

(* fetch_coordinates up to the first executor.map: the index dict of the *)
(* addresses and the initial round's work items, none submitted yet.     *)
FetchCoordinates ==
    /\ pc = "start"
    /\ LET enumerated == [i \in 1..Len(addresses) |-> <<addresses[i], i - 1>>]
           d == DictComprehension(enumerated, Len(enumerated))
       IN  /\ index_dict' = d
           /\ tasks' = WorkItems(addresses, d)
    /\ pc' = "initial"
    /\ rounds' = rounds + 1
    /\ UNCHANGED <<composer, oracle, call, first, addresses, num_threads, lat_lon_list, failed_indexes,
                   successful_indexes, retries, lat_lon_series, any_failed,
                   any_succeeded, succeeded>>

(* executor.map on the calling thread: executor.submit of the next work    *)
(* item, in the order of the pairs. Worker threads run between two submits. *)
SubmitTask(i) ==
    /\ pc \in {"initial", "retry"}
    /\ i \in 1..Len(tasks)
    /\ tasks[i].status = "unsubmitted"
    /\ \A j \in 1..(i - 1) : tasks[j].status # "unsubmitted"
    /\ tasks' = [tasks EXCEPT ![i].status = "queued"]
    /\ UNCHANGED <<composer, oracle, call, first, addresses, num_threads, pc, index_dict, lat_lon_list,
                   failed_indexes, successful_indexes, retries, lat_lon_series,
                   rounds, any_failed, any_succeeded, succeeded>>

(* A free worker thread takes the oldest queued work item. *)
StartTask(i) ==
    /\ pc \in {"initial", "retry"}
    /\ i \in 1..Len(tasks)
    /\ tasks[i].status = "queued"
    /\ \A j \in 1..(i - 1) : tasks[j].status # "queued"
    /\ Cardinality(Running) < max_workers
    /\ tasks' = [tasks EXCEPT ![i].status = "running"]
    /\ UNCHANGED <<composer, oracle, call, first, addresses, num_threads, pc, index_dict, lat_lon_list,
                   failed_indexes, successful_indexes, retries, lat_lon_series,
                   rounds, any_failed, any_succeeded, succeeded>>

(* FinishTask with the worker storing its outcome in the output list itself. *)
FinishTask_WritesOutput(i, g) ==
    /\ pc \in {"initial", "retry"}
    /\ i \in 1..Len(tasks)
    /\ tasks[i].status = "running"
    /\ tasks' = [tasks EXCEPT ![i].status = "done",
                              ![i].result = _geocode_wrapper(g, tasks[i].index)]
    /\ lat_lon_list' = IF tasks[i].index[2] < Len(lat_lon_list)
                       THEN [lat_lon_list EXCEPT ![tasks[i].index[2] + 1] = geocode(g)]
                       ELSE lat_lon_list
    /\ any_failed' = (any_failed \/ ~g.ok)
    /\ any_succeeded' = (any_succeeded \/ g.ok)
    /\ succeeded' = IF g.ok THEN succeeded \cup {tasks[i].index[2]} ELSE succeeded
    /\ UNCHANGED <<composer, oracle, call, first, addresses, num_threads, pc, index_dict,
                   failed_indexes, successful_indexes, retries, lat_lon_series,
                   rounds>>

(* The geocoder answers g to a running lookup; _geocode_wrapper returns. *)
FinishTask(i, g) ==
    /\ pc \in {"initial", "retry"}
    /\ i \in 1..Len(tasks)
    /\ tasks[i].status = "running"
    /\ tasks' = [tasks EXCEPT ![i].status = "done",
                              ![i].result = _geocode_wrapper(g, tasks[i].index)]
    /\ any_failed' = (any_failed \/ ~g.ok)
    /\ any_succeeded' = (any_succeeded \/ g.ok)
    /\ succeeded' = IF g.ok THEN succeeded \cup {tasks[i].index[2]} ELSE succeeded
    /\ UNCHANGED <<composer, oracle, call, first, addresses, num_threads, pc, index_dict, lat_lon_list,
                   failed_indexes, successful_indexes, retries, lat_lon_series,
                   rounds>>

(* The initial concurrent_geocode returns; retries = 0. *)
CollectInitial ==
    /\ pc = "initial"
    /\ AllDone
    /\ LET r == concurrent_geocode(tasks)
       IN  /\ lat_lon_list' = r.lat_lon_list
           /\ failed_indexes' = r.failed_indexes
           /\ successful_indexes' = r.successful_indexes
    /\ retries' = 0
    /\ pc' = "loop"
    /\ UNCHANGED <<composer, oracle, call, first, addresses, num_threads, index_dict, tasks,
                   lat_lon_series, rounds, any_failed, any_succeeded, succeeded>>

(* The loop test holds: the failed indexes become the index dict and their *)
(* addresses are the work items of the next executor.map, none submitted   *)
(* yet.                                                                    *)
Retry ==
    /\ pc = "loop"
    /\ LoopTest
    /\ index_dict' = failed_indexes
    /\ LET index_list == DictValues(failed_indexes)
       IN  tasks' = WorkItems([i \in 1..Len(index_list) |-> addresses[index_list[i] + 1]],
                              failed_indexes)
    /\ pc' = "retry"
    /\ rounds' = rounds + 1
    /\ UNCHANGED <<composer, oracle, call, first, addresses, num_threads, lat_lon_list, failed_indexes,
                   successful_indexes, retries, lat_lon_series, any_failed,
                   any_succeeded, succeeded>>

(* A retry's concurrent_geocode returns: the output list is updated from *)
(* update_list and retries goes up, or the update raises IndexError.     *)
CollectRetry ==
    /\ pc = "retry"
    /\ AllDone
    /\ LET r == concurrent_geocode(tasks)
           lat_lon_retries == r.lat_lon_list
           update_list == Zip(lat_lon_retries, DictValues(r.successful_indexes))
           u == UpdateLatLonList(lat_lon_list, update_list, 1)
       IN  /\ failed_indexes' = r.failed_indexes
           /\ successful_indexes' = r.successful_indexes
           /\ lat_lon_list' = u.list
           /\ retries' = IF u.raised THEN retries ELSE retries + 1
           /\ pc' = IF u.raised THEN "raised" ELSE "loop"
    /\ UNCHANGED <<composer, oracle, call, first, addresses, num_threads, index_dict, tasks,
                   lat_lon_series, rounds, any_failed, any_succeeded, succeeded>>

(* The loop test fails: the output list becomes self.lat_lon_series and is *)
(* returned.                                                               *)
Return ==
    /\ pc = "loop"
    /\ ~LoopTest
    /\ lat_lon_series' = lat_lon_list
    /\ pc' = "done"
    /\ UNCHANGED <<composer, oracle, call, first, addresses, num_threads, index_dict, tasks, lat_lon_list,
                   failed_indexes, successful_indexes, retries, rounds, any_failed,
                   any_succeeded, succeeded>>

(* A step of the call, with the geocoder answering from `answers`. *)
Step(answers) ==
    \/ FetchCoordinates
    \/ \E i \in 1..MaxLen : SubmitTask(i)
    \/ \E i \in 1..MaxLen : StartTask(i)
    \/ \E i \in 1..MaxLen, g \in answers : FinishTask(i, g)
    \/ CollectInitial
    \/ Retry
    \/ CollectRetry
    \/ Return

Next == Step(Responses)

Spec == Init /\ [][Next]_vars

(* The call against a geocoder that fails every lookup. Worker threads get *)
(* scheduled, the geocoder answers every call and the calling thread runs  *)
(* on: a step that can be taken is eventually taken.                       *)
NextAllFail == Step({g \in Responses : ~g.ok})

AllFailSpec == Init /\ [][NextAllFail]_vars /\ WF_vars(NextAllFail)

----------------------------------------------------------------------------
(* Two calls of fetch_coordinates on the same addresses against a geocoder *)
(* whose answer depends only on the address and the round: the first call  *)
(* with num_threads = 1, the second with num_threads omitted or another    *)
(* value.                                                                  *)

(* The geocoders: the lookup of address a fails in the rounds up to        *)
(* oracle[a] and is answered in every later round; oracle[a] =             *)
(* MaxRetries + 1 for an address that is never answered.                   *)
Oracles(addrs) == [Range(addrs) -> 0..MaxFailRounds \cup {MaxRetries + 1}]

(* The answer to the lookup of address a in the given round; the latitude  *)
(* varies with the address and with the round.                             *)
OracleAnswer(a, round) ==
    LET k == CHOOSE j \in 1..MaxLen : Address(j) = a
        la == ((k + round) % MaxLat) + 1
    IN  IF round <= oracle[a] THEN [ok |-> FALSE, lat |-> 0, lng |-> 0]
        ELSE [ok |-> TRUE, lat |-> la, lng |-> 0 - la]

OracleInit ==
    /\ addresses \in {list \in ListsUpTo(AddressPool, MaxLen) : FirstOccurrenceOrdered(list)}
    /\ num_threads = 1
    /\ oracle \in Oracles(addresses)
    /\ call = 1
    /\ first = None
    /\ pc = "start"
    /\ index_dict = <<>>
    /\ tasks = <<>>
    /\ lat_lon_list = <<>>
    /\ failed_indexes = <<>>
    /\ successful_indexes = <<>>
    /\ retries = 0
    /\ lat_lon_series = None
    /\ rounds = 0
    /\ any_failed = FALSE
    /\ any_succeeded = FALSE
    /\ succeeded = {}
    /\ ComposerIdle

(* The first call has returned or raised: fetch_coordinates is called      *)
(* again on the same object and addresses, without num_threads or with a   *)
(* num_threads other than 1. self.lat_lon_series keeps its value.          *)
SecondCall ==
    /\ call = 1
    /\ pc \in {"done", "raised"}
    /\ first' = [pc |-> pc,
                 series |-> IF pc = "done" THEN lat_lon_series ELSE <<>>]
    /\ call' = 2
    /\ num_threads' \in (0..MaxThreads) \ {1}
    /\ pc' = "start"
    /\ index_dict' = <<>>
    /\ tasks' = <<>>
    /\ lat_lon_list' = <<>>
    /\ failed_indexes' = <<>>
    /\ successful_indexes' = <<>>
    /\ retries' = 0
    /\ rounds' = 0
    /\ any_failed' = FALSE
    /\ any_succeeded' = FALSE
    /\ succeeded' = {}
    /\ UNCHANGED <<composer, oracle, addresses, lat_lon_series>>

OracleNext ==
    \/ FetchCoordinates
    \/ \E i \in 1..MaxLen : SubmitTask(i)
    \/ \E i \in 1..MaxLen : StartTask(i)
    \/ \E i \in 1..MaxLen : FinishTask(i, OracleAnswer(tasks[i].address, rounds))
    \/ CollectInitial
    \/ Retry
    \/ CollectRetry
    \/ Return
    \/ SecondCall

OracleSpec == OracleInit /\ [][OracleNext]_vars

----------------------------------------------------------------------------
(* create_main_address.  A field value is a str, kept as the sequence of   *)
(* its characters, or a missing value (None, NaN).  A Series is the        *)
(* sequence of its values under the default index 0, 1, 2, ...             *)
(* self.full_addresses is <<>> while it is None and <<series>> once a      *)
(* call has stored a series.                                               *)

(* A missing value of a Series. *)
NaN == <<"nan">>

(* The characters str.strip() removes: those str.isspace() holds of. A     *)
(* character TLA+ cannot write stands as its Python escape.                *)
Whitespace ==
    {" ", "\t", "\n", "\r", "\f", "\\x0b", "\\x1c", "\\x1d", "\\x1e", "\\x1f",
     "\\x85", "\\xa0", "\\u1680", "\\u2000", "\\u2001", "\\u2002", "\\u2003",
     "\\u2004", "\\u2005", "\\u2006", "\\u2007", "\\u2008", "\\u2009", "\\u200a",
     "\\u2028", "\\u2029", "\\u202f", "\\u205f", "\\u3000"}

(* The field values of the inputs: a missing value, 'a' and '\t,a \n'. *)
FieldPool == {NaN, <<"a">>, <<"\t", ",", "a", " ", "\n">>}

(* The arguments *args of a call: up to MaxSeries Series of up to MaxRows  *)
(* values each, or one Series of up to MaxAddresses values.                *)
SeriesArgs ==
    ListsUpTo(ListsUpTo(FieldPool, MaxRows), MaxSeries)
    \cup {<<address>> : address \in ListsUpTo(FieldPool, MaxAddresses)}

(* Series.fillna('') on one value. *)
fillna(v) == IF v = NaN THEN <<>> ELSE v

(* .str.replace(',', '') on one value. *)
str_replace(s) == SelectSeq(s, LAMBDA c : c # ",")

RECURSIVE lstrip(_)
lstrip(s) == IF s # <<>> /\ Head(s) \in Whitespace THEN lstrip(Tail(s)) ELSE s

RECURSIVE rstrip(_)
rstrip(s) ==
    IF s # <<>> /\ s[Len(s)] \in Whitespace THEN rstrip(SubSeq(s, 1, Len(s) - 1)) ELSE s

(* .str.strip() on one value. *)
strip(s) == rstrip(lstrip(s))

(* address.fillna('').str.replace(',', '').str.strip() on one Series. *)
Clean(address) == [i \in 1..Len(address) |-> strip(str_replace(fillna(address[i])))]

(* pd.concat(cleaned, axis=1): the Series become the columns of a frame    *)
(* over the union of their indexes; a column shorter than the frame holds  *)
(* NaN in the rows it lacks.                                               *)
RECURSIVE MaxLength(_)
MaxLength(columns) ==
    IF columns = <<>> THEN 0
    ELSE LET rest == MaxLength(Tail(columns))
         IN  IF Len(Head(columns)) > rest THEN Len(Head(columns)) ELSE rest

concat(cleaned) ==
    [i \in 1..MaxLength(cleaned) |->
        [j \in 1..Len(cleaned) |->
            IF i <= Len(cleaned[j]) THEN cleaned[j][i] ELSE NaN]]

(* ' '.join(row) on a row of str values. *)
RECURSIVE join(_)
join(row) ==
    IF row = <<>> THEN <<>>
    ELSE IF Len(row) = 1 THEN row[1]
    ELSE row[1] \o <<" ">> \o join(Tail(row))

(* The loop of _find_duplicate_address from item i on. *)
RECURSIVE DuplicateLoop(_, _, _, _)
DuplicateLoop(address_list, i, unique_addresses, duplicate_addresses) ==
    IF i > Len(address_list) THEN duplicate_addresses
    ELSE DuplicateLoop(address_list, i + 1,
                       unique_addresses \cup {address_list[i]},
                       IF address_list[i] \in unique_addresses
                       THEN Append(duplicate_addresses, address_list[i])
                       ELSE duplicate_addresses)

(* The loop with an item appended only the first time it is met again. *)
RECURSIVE DuplicateLoopOnce(_, _, _, _)
DuplicateLoopOnce(address_list, i, unique_addresses, duplicate_addresses) ==
    IF i > Len(address_list) THEN duplicate_addresses
    ELSE DuplicateLoopOnce(address_list, i + 1,
                           unique_addresses \cup {address_list[i]},
                           IF /\ address_list[i] \in unique_addresses
                              /\ address_list[i] \notin Range(duplicate_addresses)
                           THEN Append(duplicate_addresses, address_list[i])
                           ELSE duplicate_addresses)

(* _find_duplicate_address returning every repeated address once, however *)
(* often it occurs.                                                        *)
_find_duplicate_address_ListsOnce(address_list) ==
    DuplicateLoopOnce(address_list, 1, {}, <<>>)

_find_duplicate_address(address_list) == DuplicateLoop(address_list, 1, {}, <<>>)

(* An outcome of create_main_address: the exception raised (None if it     *)
(* returned), the series returned, the counts printed and the cache after. *)
Outcome(exception, value, notice, cache) ==
    [exception |-> exception, value |-> value, notice |-> notice, full_addresses |-> cache]

(* create_main_address(args) on an object whose cache holds `cache`.      *)
(* pd.concat raises ValueError on no Series at all; ' '.join raises        *)
(* TypeError on a row that holds a NaN; the function itself raises nothing *)
(* and makes no test on the lengths.                                       *)
create_main_address(args, cache) ==
    IF args = <<>> THEN Outcome("ValueError", <<>>, <<>>, cache)
    ELSE LET cleaned == [j \in 1..Len(args) |-> Clean(args[j])]
             frame == concat(cleaned)
         IN  IF \E i \in 1..Len(frame) : \E j \in 1..Len(frame[i]) : frame[i][j] = NaN
             THEN Outcome("TypeError", <<>>, <<>>, cache)
             ELSE LET composed == [i \in 1..Len(frame) |-> join(frame[i])]
                      duplicate_addresses == _find_duplicate_address(composed)
                  IN  Outcome(None, composed,
                              IF duplicate_addresses # <<>>
                              THEN <<Len(duplicate_addresses)>> ELSE <<>>,
                              <<composed>>)

(* The cache of a new object, or the cache an earlier call on one Series   *)
(* has left.                                                               *)
EarlierCaches ==
    {<<>>} \cup {create_main_address(<<address>>, <<>>).full_addresses :
                    address \in ListsUpTo(FieldPool, MaxRows)}

ComposeInit ==
    /\ addresses = <<>>
    /\ num_threads = 0
    /\ pc = "start"
    /\ index_dict = <<>>
    /\ tasks = <<>>
    /\ lat_lon_list = <<>>
    /\ failed_indexes = <<>>
    /\ successful_indexes = <<>>
    /\ retries = 0
    /\ lat_lon_series = None
    /\ rounds = 0
    /\ any_failed = FALSE
    /\ any_succeeded = FALSE
    /\ succeeded = {}
    /\ oracle = <<>>
    /\ call = 1
    /\ first = None
    /\ full_addresses \in EarlierCaches
    /\ cm_pc = "idle"
    /\ cm_args = <<>>
    /\ cm_result = [exception |-> None, value |-> <<>>]
    /\ cm_notice = <<>>

(* One call of create_main_address(args). *)
CreateMainAddress(args) ==
    /\ cm_pc = "idle"
    /\ LET r == create_main_address(args, full_addresses)
       IN  /\ cm_pc' = IF r.exception = None THEN "returned" ELSE "raised"
           /\ cm_args' = args
           /\ cm_result' = [exception |-> r.exception, value |-> r.value]
           /\ cm_notice' = r.notice
           /\ full_addresses' = r.full_addresses
    /\ UNCHANGED engine

(* The arguments of the call still to be made, none once it has been made. *)
CallArgs == IF cm_pc = "idle" THEN SeriesArgs ELSE {}

ComposeNext == \E args \in CallArgs : CreateMainAddress(args)

ComposeSpec == ComposeInit /\ [][ComposeNext]_vars

----------------------------------------------------------------------------
(* Vocabulary of the properties *)

(* The positions (0-based) of a list that hold None. *)
NonePositions(list) == {p \in 0..(Len(list) - 1) : list[p + 1] = None}

(* The indexes of an index dict. *)
Indexes(d) == Range(DictValues(d))

(* The i-th lookup of the current round has returned a coordinate. *)
TaskSucceeded(i) == tasks[i].status = "done" /\ tasks[i].result[1] # None

(* A round has been collected: the call is at the loop test, or the update *)
(* of the output list has raised.                                          *)
RoundCollected == pc \in {"loop", "raised"}

(* What geocode returns for an answer that is ok with the falsy coordinate. *)
FalsyCoordinate == geocode([ok |-> TRUE, lat |-> 0, lng |-> 0])

(* The Series of a call are not all of one length. *)
UnequalLengths(args) ==
    \E j, k \in 1..Len(args) : Len(args[j]) # Len(args[k])

----------------------------------------------------------------------------
(* C1: the output list has as many entries as the input after the initial *)
(* round, after every retry round and on return.                          *)
C1_OutputLengthEqualsInput ==
    /\ pc = "loop" => Len(lat_lon_list) = Len(addresses)
    /\ pc = "done" => Len(lat_lon_series) = Len(addresses)

(* C2: after a retry round, every lookup of the round that returned a      *)
(* coordinate has that coordinate in the output list at its own index,     *)
(* whatever the other lookups of the round returned.                       *)
C2_RetrySuccessWrittenAtIndex ==
    (RoundCollected /\ rounds >= 2) =>
        \A i \in 1..Len(tasks) :
            TaskSucceeded(i) =>
                /\ tasks[i].index[2] < Len(lat_lon_list)
                /\ lat_lon_list[tasks[i].index[2] + 1] = tasks[i].result[1]

(* C3: on return the positions holding None are exactly the indexes still  *)
(* in failed_indexes, no index whose lookup ever succeeded holds None, and *)
(* with failed_indexes empty no position holds None.                       *)
C3_NoneExactlyAtFailedIndexes ==
    pc = "done" =>
        /\ NonePositions(lat_lon_series) = Indexes(failed_indexes)
        /\ NonePositions(lat_lon_series) \cap succeeded = {}
        /\ failed_indexes = <<>> => NonePositions(lat_lon_series) = {}

(* C4: the initial round issues one geocoder call per input position, the  *)
(* i-th for the address at position i paired with index i, and the round's *)
(* output has the outcome of that call at position i.                      *)
C4_InitialRoundOneCallPerPosition ==
    rounds = 1 =>
        /\ Len(tasks) = Len(addresses)
        /\ \A i \in 1..Len(tasks) :
              i <= Len(addresses) =>
                  tasks[i].address = addresses[i] /\ tasks[i].index[2] = i - 1
        /\ pc = "loop" =>
              /\ Len(lat_lon_list) = Len(addresses)
              /\ \A i \in 1..Len(tasks) :
                    i <= Len(lat_lon_list) => lat_lon_list[i] = tasks[i].result[1]

(* C5: whatever the geocoder answers, fetch_coordinates never ends with an *)
(* exception.                                                              *)
C5_NeverRaises == pc # "raised"

(* C6: when every geocoder call has succeeded, the call returns after one  *)
(* dispatch round, and entry i of the result is the coordinate returned    *)
(* for the address at input position i, none being None.                   *)
C6_AllSucceedOneRound ==
    (pc = "done" /\ ~any_failed) =>
        /\ rounds = 1
        /\ Len(lat_lon_series) = Len(addresses)
        /\ Len(tasks) = Len(addresses)
        /\ \A i \in 1..Len(addresses) :
              /\ lat_lon_series[i] # None
              /\ tasks[i].address = addresses[i]
              /\ lat_lon_series[i] = tasks[i].result[1]

(* Every entry of the returned series is None. *)
AllNone(series) == \A i \in 1..Len(series) : series[i] = None

(* C7 as stated: when every geocoder call fails, the call returns after    *)
(* the initial round and exactly 10 retry rounds, every entry None.        *)
C7_AllFailTenRetries ==
    (pc = "done" /\ ~any_succeeded) =>
        /\ retries = MaxRetries
        /\ rounds = MaxRetries + 1
        /\ AllNone(lat_lon_series)

(* C7, amended: for a non-empty input, when every geocoder call fails, the *)
(* call eventually returns, after the initial round and exactly 10 retry   *)
(* rounds, a series whose entries are all None.                            *)
C7_AllFailTenRetriesNonEmpty ==
    Len(addresses) > 0 =>
        <>(/\ pc = "done"
           /\ retries = MaxRetries
           /\ rounds = MaxRetries + 1
           /\ Len(lat_lon_series) > 0
           /\ AllNone(lat_lon_series))

(* C7 witness: a call on several addresses has returned after ten retry    *)
(* rounds in which every lookup failed.                                    *)
C7_Witness ==
    /\ pc = "done"
    /\ Len(addresses) >= 2
    /\ ~any_succeeded
    /\ any_failed
    /\ retries = MaxRetries

(* C8: when every lookup of the first retry round succeeds, the round ends *)
(* at the loop test with no failed index, the output list holds at each    *)
(* index that failed in the initial round the coordinate of its retry, and *)
(* every other entry is as the initial round left it.                      *)
C8_FirstRetryAllSucceed ==
    [][(/\ pc = "retry"
        /\ pc' # "retry"
        /\ rounds = 2
        /\ \A i \in 1..Len(tasks) : TaskSucceeded(i))
       => (/\ pc' = "loop"
           /\ failed_indexes' = <<>>
           /\ Len(lat_lon_list) = Len(addresses)
           /\ Len(lat_lon_list') = Len(addresses)
           /\ \A p \in 0..(Len(addresses) - 1) :
                 IF p \in Indexes(failed_indexes)
                 THEN \E i \in 1..Len(tasks) :
                         /\ tasks[i].index[2] = p
                         /\ lat_lon_list'[p + 1] = tasks[i].result[1]
                 ELSE lat_lon_list'[p + 1] = lat_lon_list[p + 1])]_vars

(* C9: in every round each geocoder call is paired with the input position *)
(* of the address it sends: the address sent is addresses[index].          *)
C9_CallPairedWithOwnPosition ==
    \A i \in 1..Len(tasks) :
        /\ tasks[i].index[2] < Len(addresses)
        /\ tasks[i].address = addresses[tasks[i].index[2] + 1]

(* C10: at the loop test a further round is dispatched exactly when        *)
(* failed_indexes is non-empty and fewer than 10 retries have been made,   *)
(* and the call returns otherwise; there are never more than 10 retries    *)
(* nor more than 11 rounds, and a round sends no index twice, so that no   *)
(* position is sent to the geocoder more than 11 times.                    *)
C10_RetryLoopBound ==
    /\ [](/\ retries <= MaxRetries
          /\ rounds <= MaxRetries + 1
          /\ \A i, j \in 1..Len(tasks) :
                tasks[i].index[2] = tasks[j].index[2] => i = j)
    /\ [][pc = "loop" =>
            /\ pc' = "retry" <=> (failed_indexes # <<>> /\ retries < MaxRetries)
            /\ pc' = "done" <=> ~(failed_indexes # <<>> /\ retries < MaxRetries)]_vars

(* C10 witness: the call has returned because the ceiling was reached, an  *)
(* index still failing after the initial round and ten retry rounds.       *)
C10_Witness ==
    /\ pc = "done"
    /\ retries = MaxRetries
    /\ rounds = MaxRetries + 1
    /\ failed_indexes # <<>>

(* The indexes the lookups of the current round are paired with. *)
Dispatched == {tasks[i].index[2] : i \in 1..Len(tasks)}

(* C11: the failed index set never grows from one round to the next: a     *)
(* retry round dispatches exactly the indexes that failed in the round     *)
(* before it, none of them an index whose lookup has succeeded, and the    *)
(* failed indexes of a collected round are among the indexes it            *)
(* dispatched.                                                             *)
C11_PendingSetShrinks ==
    /\ [](/\ pc = "retry" =>
                /\ Dispatched = Indexes(failed_indexes)
                /\ Len(tasks) = Len(failed_indexes)
          /\ RoundCollected => Indexes(failed_indexes) \subseteq Dispatched)
    /\ [][/\ pc # "initial" => Indexes(failed_indexes') \subseteq Indexes(failed_indexes)
          /\ (pc = "loop" /\ pc' = "retry") =>
                /\ Dispatched' = Indexes(failed_indexes)
                /\ Dispatched' \subseteq Dispatched
                /\ Dispatched' \cap succeeded = {}]_vars

(* C11 witness: a second retry round is under way with fewer lookups than  *)
(* the initial round had, an index having succeeded before.                *)
C11_Witness ==
    /\ pc = "retry"
    /\ rounds >= 3
    /\ succeeded # {}
    /\ Len(tasks) >= 1
    /\ Len(tasks) < Len(addresses)

(* C12: the output list changes only in the step that collects a round,    *)
(* with every lookup of the round completed; a worker's step leaves it     *)
(* unchanged; and a round is dispatched only when every lookup of the      *)
(* round before has completed.                                             *)
C12_RoundIsBarrier ==
    [][/\ lat_lon_list' # lat_lon_list =>
             /\ pc \in {"initial", "retry"}
             /\ \A i \in 1..Len(tasks) : tasks[i].status = "done"
             /\ tasks' = tasks
       /\ tasks' # tasks => lat_lon_list' = lat_lon_list
       /\ rounds' # rounds => \A i \in 1..Len(tasks) : tasks[i].status = "done"]_vars

(* C12 witness: in a retry round one lookup has returned a coordinate      *)
(* while another is still running, and the output list still holds None    *)
(* at the index of the first.                                              *)
C12_Witness ==
    /\ pc = "retry"
    /\ \E i, j \in 1..Len(tasks) :
          /\ TaskSucceeded(i)
          /\ tasks[j].status = "running"
          /\ tasks[i].index[2] < Len(lat_lon_list)
          /\ lat_lon_list[tasks[i].index[2] + 1] = None

(* C13: against a geocoder whose answer depends only on the address and   *)
(* the round, a call with another concurrency ends as the call with        *)
(* num_threads = 1 did: it returns the same series, entry for entry, or    *)
(* raises as the first did, whatever the order in which the worker         *)
(* threads ran.                                                            *)
C13_SameResultAsConcurrencyOne ==
    (call = 2 /\ pc \in {"done", "raised"}) =>
        /\ first.pc = pc
        /\ pc = "done" => lat_lon_series = first.series

(* C13 witness: the second call, with several workers, has returned after  *)
(* a retry a series with a coordinate and an unresolved entry.             *)
C13_Witness ==
    /\ call = 2
    /\ pc = "done"
    /\ num_threads # 1
    /\ rounds >= 2
    /\ \E i, j \in 1..Len(lat_lon_series) :
          lat_lon_series[i] = None /\ lat_lon_series[j] # None

(* C14: the lookups running at the same time are never more than the      *)
(* host's os.cpu_count(), nor more than num_threads when the caller gave   *)
(* one.                                                                    *)
C14_ConcurrencyWithinHost ==
    /\ Cardinality(Running) <= CpuCount
    /\ num_threads # 0 => Cardinality(Running) <= num_threads

(* C15: a failed lookup stops no other lookup of its round. While a round  *)
(* has a lookup that is not done, the caller can submit a work item or a   *)
(* worker can take a step, whatever the lookups done so far returned; a    *)
(* work item is never dropped or undone before the round is collected; and *)
(* a collected round has every lookup done, one outcome per lookup, each   *)
(* in exactly one of the failed and the successful index dicts.            *)
C15_FailureIsolation ==
    /\ [](/\ (pc \in {"initial", "retry"}
              /\ \E i \in 1..Len(tasks) : tasks[i].status # "done") =>
                 \/ \E i \in 1..Len(tasks) : tasks[i].status = "unsubmitted"
                 \/ \E i \in 1..Len(tasks) : tasks[i].status = "running"
                 \/ /\ \E i \in 1..Len(tasks) : tasks[i].status = "queued"
                    /\ Cardinality(Running) < max_workers
          /\ RoundCollected =>
                 /\ \A i \in 1..Len(tasks) :
                       /\ tasks[i].status = "done"
                       /\ tasks[i].result[2] = tasks[i].index
                 /\ Len(failed_indexes) + Len(successful_indexes) = Len(tasks)
          /\ (pc = "loop" /\ rounds = 1) => Len(lat_lon_list) = Len(tasks))
    /\ [][(\E i \in 1..Len(tasks) : tasks[i].status # "done") =>
             /\ Len(tasks') = Len(tasks)
             /\ \A i \in 1..Len(tasks) :
                   /\ tasks'[i].address = tasks[i].address
                   /\ tasks'[i].index = tasks[i].index
                   /\ tasks[i].status = "done" => tasks'[i] = tasks[i]
                   /\ tasks[i].status # "unsubmitted" => tasks'[i].status # "unsubmitted"
                   /\ tasks[i].status = "running" => tasks'[i].status # "queued"]_vars

(* C15 witness: a round of several lookups has been collected in which the *)
(* first lookup failed and a later one returned a coordinate.              *)
C15_Witness ==
    /\ pc = "loop"
    /\ Len(tasks) >= 2
    /\ tasks[1].result[1] = None
    /\ \E i \in 2..Len(tasks) : TaskSucceeded(i)

(* C16: a call of create_main_address whose Series are not all of one      *)
(* length raises InvalidInputError, returns no series, partial or whole,   *)
(* and leaves self.full_addresses as it was before the call.               *)
C16_UnequalLengthsInvalidInput ==
    /\ [](cm_pc # "idle" /\ UnequalLengths(cm_args) =>
             /\ cm_pc = "raised"
             /\ cm_result.exception = "InvalidInputError"
             /\ cm_result.value = <<>>)
    /\ [][UnequalLengths(cm_args') => full_addresses' = full_addresses]_vars

(* C17: a call of create_main_address that returns prints its duplicate    *)
(* notice exactly when some composed address occurs more than once in the  *)
(* returned series, and the count it prints is the number of composed      *)
(* addresses minus the number of distinct ones.                            *)
C17_DuplicateNotice ==
    cm_pc = "returned" =>
        LET composed == cm_result.value
        IN  /\ cm_notice # <<>> <=>
                   \E i, j \in 1..Len(composed) : i < j /\ composed[i] = composed[j]
            /\ cm_notice # <<>> =>
                   cm_notice = <<Len(composed) - Cardinality(Range(composed))>>

(* C17 witness: a call returned four addresses, three of them one address  *)
(* of which two were written differently, and printed the count 2: the     *)
(* addresses less the distinct ones, not the one address that repeats nor  *)
(* the addresses less one.                                                 *)
C17_Witness ==
    /\ cm_pc = "returned"
    /\ Len(cm_result.value) = 4
    /\ Cardinality(Range(cm_result.value)) = 2
    /\ cm_result.value[1] = cm_result.value[2]
    /\ cm_result.value[2] = cm_result.value[3]
    /\ cm_args[1][1] # cm_args[1][2]
    /\ cm_notice = <<2>>

(* C18: a lookup the geocoder answers ok with a falsy coordinate is        *)
(* treated as a failed lookup: no coordinate is written for it in the      *)
(* output list, and the round that collects it has its index among the     *)
(* failed indexes, from which the next round is dispatched.                *)
C18_FalsyCoordinateIsFailure ==
    /\ \A p \in 1..Len(lat_lon_list) : lat_lon_list[p] # FalsyCoordinate
    /\ RoundCollected =>
           \A i \in 1..Len(tasks) :
               tasks[i].result[1] = FalsyCoordinate =>
                   tasks[i].index[2] \in Indexes(failed_indexes)

(* C19: when a round has been collected, the failed and the successful     *)
(* indexes concurrent_geocode returned have no index in common, together   *)
(* they are exactly the indexes the round dispatched, and the index of a   *)
(* lookup is among the failed ones exactly when its outcome was None.      *)
C19_IndexSetsPartitionRound ==
    RoundCollected =>
        /\ Indexes(failed_indexes) \cap Indexes(successful_indexes) = {}
        /\ Indexes(failed_indexes) \cup Indexes(successful_indexes) = Dispatched
        /\ \A i \in 1..Len(tasks) :
               tasks[i].index[2] \in Indexes(failed_indexes) <=> tasks[i].result[1] = None

(* C19 witness: a retry round of several lookups has been collected with   *)
(* a failed and a successful index.                                        *)
C19_Witness ==
    /\ RoundCollected
    /\ rounds >= 2
    /\ Len(tasks) >= 2
    /\ failed_indexes # <<>>
    /\ successful_indexes # <<>>

(* C20: a retry round changes the output list only at positions that were *)
(* among the failed indexes when the round started and held no coordinate: *)
(* an entry that holds a coordinate, and an entry at any other position,   *)
(* is the same after the round as before it.                               *)
C20_CoordinateNeverOverwritten ==
    [][pc = "retry" =>
          \A p \in 1..Len(lat_lon_list) :
              (lat_lon_list[p] # None \/ (p - 1) \notin Indexes(failed_indexes)) =>
                  /\ p <= Len(lat_lon_list')
                  /\ lat_lon_list'[p] = lat_lon_list[p]]_vars

====
